---- MODULE Spec2Model ----
(***************************************************************************)
(* Mindmapify (src/app.py): one Streamlit script run.  A run reads the     *)
(* sidebar widgets, configures the Gemini client, reads the uploaded PDF,  *)
(* extracts its text, produces a markdown outline (AI call or the simple   *)
(* generator), embeds the outline into the Markmap HTML page and offers    *)
(* both for download.                                                      *)
(*                                                                         *)
(* Two representations of Python str are used.                             *)
(*  - The document text can be tens of thousands of characters long (the   *)
(*    prompt cap is 30000), so it is kept run-length encoded: a sequence   *)
(*    of runs [c |-> character, n |-> repetitions], canonical (n >= 1 and  *)
(*    adjacent runs differ in c).  The operators R... compute on it what   *)
(*    len, +, strip and slicing compute on the str.                        *)
(*  - Outlines (the AI response, markdown_content, the text embedded in    *)
(*    the HTML) are plain sequences of one-character strings.              *)
(* None is the model value of Python's None.                               *)
(***************************************************************************)
EXTENDS Integers, Sequences, FiniteSets, TLC

None == "None"

\* ---------------------------------------------------------------- bounds
\* pages of the uploaded PDF
MaxPages == 2
\* characters of the text the AI service answers with
MaxRespLen == 3

\* ---------------------------------------------------- str as a sequence
\* str.isspace for one character
IsSpace(c) == c \in {" ", "\n", "\t"}

RECURSIVE LStrip(_)
\* str.lstrip()
LStrip(s) == IF s # <<>> /\ IsSpace(Head(s)) THEN LStrip(Tail(s)) ELSE s

RECURSIVE RStripSeq(_)
\* str.rstrip()
RStripSeq(s) ==
    IF s # <<>> /\ IsSpace(s[Len(s)]) THEN RStripSeq(SubSeq(s, 1, Len(s) - 1)) ELSE s

\* str.strip()
Strip(s) == RStripSeq(LStrip(s))

RECURSIVE ReplaceChar(_, _, _)
\* str.replace(old, new) for a one-character old.  The str is worked on in
\* halves (the occurrences of one character never overlap), which keeps the
\* recursion shallow on a long outline.
ReplaceChar(s, old, new) ==
    IF Len(s) = 0 THEN <<>>
    ELSE IF Len(s) = 1 THEN (IF s[1] = old THEN new ELSE s)
    ELSE LET m == Len(s) \div 2
         IN  ReplaceChar(SubSeq(s, 1, m), old, new)
             \o ReplaceChar(SubSeq(s, m + 1, Len(s)), old, new)

RECURSIVE ReplacePair(_, _, _, _)
\* str.replace(old, new) for a two-character old <<o1, o2>> with o1 # o2:
\* its occurrences cannot overlap, so every one of them is replaced.  The
\* str is worked on in halves, cut where no occurrence is cut.
ReplacePair(s, o1, o2, new) ==
    IF Len(s) <= 1 THEN s
    ELSE IF Len(s) = 2 THEN (IF s = <<o1, o2>> THEN new ELSE s)
    ELSE LET h == Len(s) \div 2
             m == IF s[h] = o1 /\ s[h + 1] = o2 THEN h + 1 ELSE h
         IN  ReplacePair(SubSeq(s, 1, m), o1, o2, new)
             \o ReplacePair(SubSeq(s, m + 1, Len(s)), o1, o2, new)

\* ------------------------------------------- str as a sequence of runs
Run(c, n) == [c |-> c, n |-> n]

RECURSIVE RLen(_)
\* len(s)
RLen(s) == IF s = <<>> THEN 0 ELSE Head(s).n + RLen(Tail(s))

\* s + t
RCat(s, t) ==
    IF s = <<>> THEN t
    ELSE IF t = <<>> THEN s
    ELSE IF s[Len(s)].c = t[1].c
         THEN SubSeq(s, 1, Len(s) - 1)
              \o <<Run(t[1].c, s[Len(s)].n + t[1].n)>>
              \o Tail(t)
    ELSE s \o t

RECURSIVE RLStrip(_)
RLStrip(s) == IF s # <<>> /\ IsSpace(Head(s).c) THEN RLStrip(Tail(s)) ELSE s

RECURSIVE RRStrip(_)
RRStrip(s) ==
    IF s # <<>> /\ IsSpace(s[Len(s)].c) THEN RRStrip(SubSeq(s, 1, Len(s) - 1)) ELSE s

\* s.strip()
RStrip(s) == RRStrip(RLStrip(s))

RECURSIVE RTake(_, _)
\* s[:k]
RTake(s, k) ==
    IF s = <<>> \/ k <= 0 THEN <<>>
    ELSE IF Head(s).n >= k THEN <<Run(Head(s).c, k)>>
    ELSE <<Head(s)>> \o RTake(Tail(s), k - Head(s).n)

RECURSIVE RCharAt(_, _)
\* s[i - 1] (i counts from 1); None past the end
RCharAt(s, i) ==
    IF s = <<>> THEN None
    ELSE IF i <= Head(s).n THEN Head(s).c
    ELSE RCharAt(Tail(s), i - Head(s).n)

\* ------------------------------------------------------------ constants
\* src/app.py:84  max_chars
max_chars == 30000

\* Python None where a run-encoded str is expected (no str has a run of 0)
NoneText == <<Run(None, 0)>>
\* Python None where an outline str is expected (no str has such a character)
NoneStr == <<None>>

\* truth value of a str-or-None, as "if x:" / "not x" take it
TruthyText(x) == x # NoneText /\ x # <<>>
TruthyStr(x) == x # NoneStr /\ x # <<>>
TruthyKey(k) == k # None /\ k # ""

\* the two entries of the st.radio of line 220
GoogleAI == "Google Generative AI (requires key)"
SimpleGen == "Simple Generator (no API needed)"

\* ------------------------------------------------------------- inputs
\* what page.extract_text() can give for one page
PageTexts ==
    { <<>>,
      <<Run(" ", 2), Run("\n", 1)>>,
      <<Run("a", 5)>>,
      <<Run(" ", 2), Run("a", 21), Run("\n", 1), Run("b", 30), Run(" ", 1)>>,
      <<Run("a", max_chars)>>,
      <<Run("a", max_chars - 1), Run("b", 2)>>,
      <<Run("a", max_chars \div 2)>> }

RECURSIVE SeqsUpTo(_, _)
\* the sequences over S of length at most n
SeqsUpTo(S, n) ==
    IF n = 0 THEN {<<>>}
    ELSE LET shorter == SeqsUpTo(S, n - 1)
         IN  shorter \cup {Append(q, x) : q \in {r \in shorter : Len(r) = n - 1}, x \in S}

\* st.file_uploader: nothing uploaded, a file PdfReader cannot read, or a
\* PDF with its pages' texts
NoFile == [present |-> FALSE, readable |-> FALSE, pages |-> <<>>]
UploadedFiles ==
    {NoFile, [present |-> TRUE, readable |-> FALSE, pages |-> <<>>]}
    \cup {[present |-> TRUE, readable |-> TRUE, pages |-> ps] :
              ps \in SeqsUpTo(PageTexts, MaxPages)}

\* os.getenv("GOOGLE_API_KEY"): unset, set to the empty string, or a key
EnvKeys == {None, "", "AIzaEnvKey"}

\* the backtick character (written by name: a string literal cannot hold it)
Backtick == "backtick"
Backslash == "\\"

\* characters of an AI answer
RespChars == {Backtick, "$", "{", Backslash, " ", "a"}
\* what model.generate_content can do: GenerativeModel(...) or st.info raises,
\* the call raises, or a response comes back whose .text is None or a str
Outcomes ==
    { [kind |-> "model_error", text |-> NoneStr],
      [kind |-> "call_error", text |-> NoneStr],
      [kind |-> "response", text |-> NoneStr] }
    \cup {[kind |-> "response", text |-> t] : t \in SeqsUpTo(RespChars, MaxRespLen)}
NoOutcome == [kind |-> "not_called", text |-> NoneStr]

\* ------------------------------------------------------------- state
VARIABLES
    API_KEY,           \* module global, line 10
    api_choice,        \* st.radio, line 220
    api_key,           \* st.text_input, line 223 (None when the field is not shown)
    uploaded_file,     \* st.file_uploader, line 234 (the file the user holds ready)
    pc,                \* position of main()
    text,              \* main's text
    markdown_content,  \* main's markdown_content
    html_content,      \* main's html_content: the template literal of line 179
    text_area,         \* st.text_area of line 259
    md_download,       \* st.download_button of line 260
    html_download,     \* st.download_button of line 261
    notices,           \* st.error / st.warning / st.info / st.success shown
    calls,             \* the functions invoked so far in this run, in order
    configured,        \* what genai.configure did
    outcome,           \* what the AI service did
    prompt_text,       \* the text formatted into the prompt, line 139
    fallback_arg       \* the argument generate_simple_mindmap got

vars == <<API_KEY, api_choice, api_key, uploaded_file, pc, text, markdown_content,
          html_content, text_area, md_download, html_download, notices, calls,
          configured, outcome, prompt_text, fallback_arg>>

inputs == <<API_KEY, api_choice, api_key, uploaded_file>>
outputs == <<text_area, md_download, html_download>>

\* ---------------------------------------------------------- functions
\* configure_genai reading the key typed into the sidebar field
ConfiguredKey_Entered == api_key

\* the key configure_genai tests and hands to genai.configure: the global
ConfiguredKey == API_KEY

\* configure_genai(); raises: whether genai.configure raises
configure_genai(raises) ==
    IF ~TruthyKey(ConfiguredKey)
    THEN [ret |-> FALSE, state |-> "missing",
          notices |-> {"API Key is missing"},
          calls |-> <<"configure_genai">>]
    ELSE IF raises
    THEN [ret |-> FALSE, state |-> "error",
          notices |-> {"Error configuring Google API"},
          calls |-> <<"configure_genai", "genai.configure">>]
    ELSE [ret |-> TRUE, state |-> "ok",
          notices |-> {},
          calls |-> <<"configure_genai", "genai.configure">>]

RECURSIVE ConcatPages(_)
\* the loop of extract_text_from_pdf: text += page_text + "\n" for the
\* pages whose text is not empty
ConcatPages(pages) ==
    IF pages = <<>> THEN <<>>
    ELSE LET page_text == Head(pages)
         IN  IF TruthyText(page_text)
             THEN RCat(RCat(page_text, <<Run("\n", 1)>>), ConcatPages(Tail(pages)))
             ELSE ConcatPages(Tail(pages))

\* extract_text_from_pdf without the test for text that is whitespace only
extract_text_from_pdf_NoStripCheck(pdf_file) ==
    IF ~pdf_file.readable
    THEN [ret |-> NoneText, notices |-> {"Error reading PDF"}]
    ELSE LET t == ConcatPages(pdf_file.pages)
         IN  IF ~TruthyText(t)
             THEN [ret |-> NoneText, notices |-> {"No text could be extracted"}]
             ELSE [ret |-> t, notices |-> {}]

\* extract_text_from_pdf(pdf_file)
extract_text_from_pdf(pdf_file) ==
    IF ~pdf_file.readable
    THEN [ret |-> NoneText, notices |-> {"Error reading PDF"}]
    ELSE LET t == ConcatPages(pdf_file.pages)
         IN  IF ~TruthyText(RStrip(t))
             THEN [ret |-> NoneText, notices |-> {"No text could be extracted"}]
             ELSE [ret |-> RStrip(t), notices |-> {}]

\* the cut taken one character early: a text of exactly max_chars is cut too
PromptText_OffByOne(t) ==
    IF RLen(t) >= max_chars
    THEN RCat(RTake(t, max_chars), <<Run(".", 3)>>)
    ELSE t

\* the text that goes into the prompt
PromptText(t) ==
    IF RLen(t) > max_chars
    THEN RCat(RTake(t, max_chars), <<Run(".", 3)>>)
    ELSE t

\* the test of the response
ResponseRejected(rt) == ~TruthyStr(rt) \/ ~TruthyStr(Strip(rt))

\* how often create_mindmap_markdown calls model.generate_content
CallsOfModel == <<"generate_content">>

\* create_mindmap_markdown without the test of the response: whatever text
\* came back is returned
create_mindmap_markdown_Unchecked(t, o) ==
    LET trunc == IF RLen(t) > max_chars THEN {"Text was truncated"} ELSE {}
    IN  IF o.kind = "model_error"
        THEN [ret |-> NoneStr, prompt |-> NoneText,
              notices |-> {"Using model", "Error generating mindmap"},
              calls |-> <<"create_mindmap_markdown">>]
        ELSE IF o.kind = "call_error"
        THEN [ret |-> NoneStr, prompt |-> PromptText(t),
              notices |-> {"Using model", "Error generating mindmap"} \cup trunc,
              calls |-> <<"create_mindmap_markdown">> \o CallsOfModel]
        ELSE [ret |-> o.text, prompt |-> PromptText(t),
              notices |-> {"Using model"} \cup trunc,
              calls |-> <<"create_mindmap_markdown">> \o CallsOfModel]

\* create_mindmap_markdown(text); o: what the AI service does
create_mindmap_markdown(t, o) ==
    LET trunc == IF RLen(t) > max_chars THEN {"Text was truncated"} ELSE {}
    IN  IF o.kind = "model_error"
        THEN [ret |-> NoneStr, prompt |-> NoneText,
              notices |-> {"Using model", "Error generating mindmap"},
              calls |-> <<"create_mindmap_markdown">>]
        ELSE IF o.kind = "call_error"
        THEN [ret |-> NoneStr, prompt |-> PromptText(t),
              notices |-> {"Using model", "Error generating mindmap"} \cup trunc,
              calls |-> <<"create_mindmap_markdown">> \o CallsOfModel]
        ELSE IF ResponseRejected(o.text)
        THEN [ret |-> NoneStr, prompt |-> PromptText(t),
              notices |-> {"Using model", "Received empty response"} \cup trunc,
              calls |-> <<"create_mindmap_markdown">> \o CallsOfModel]
        ELSE [ret |-> Strip(o.text), prompt |-> PromptText(t),
              notices |-> {"Using model"} \cup trunc,
              calls |-> <<"create_mindmap_markdown">> \o CallsOfModel]

\* generate_simple_mindmap returning the empty str
generate_simple_mindmap_Empty(t) == <<>>

\* generate_simple_mindmap(text): the fixed outline, whatever the text
generate_simple_mindmap(t) ==
    << "#", " ", "M", "a", "i", "n", " ", "T", "o", "p", "i", "c",
       "\n",
       "#", "#", " ", "S", "u", "b", "t", "o", "p", "i", "c", " ", "1",
       "\n",
       "#", "#", "#", " ", "D", "e", "t", "a", "i", "l", " ", "1",
       "\n",
       "-", " ", "K", "e", "y", " ", "p", "o", "i", "n", "t", " ", "1",
       "\n",
       "-", " ", "K", "e", "y", " ", "p", "o", "i", "n", "t", " ", "2",
       "\n",
       "#", "#", " ", "S", "u", "b", "t", "o", "p", "i", "c", " ", "2",
       "\n",
       "#", "#", "#", " ", "D", "e", "t", "a", "i", "l", " ", "2" >>

\* the escaping of create_markmap_html: replace the backtick, then "${"
EscapeMarkdown(md) ==
    ReplacePair(ReplaceChar(md, Backtick, <<Backslash, Backtick>>),
                "$", "{", <<Backslash, "$", "{">>)

\* create_markmap_html(markdown_content): of the page only the template
\* literal is kept, the rest of the page is fixed text
create_markmap_html(md) == <<Backtick>> \o EscapeMarkdown(md) \o <<Backtick>>

\* the branch condition without the test of the provider mode
UseAIPath_KeyOnly == TruthyKey(API_KEY)

\* the branch condition of main that picks the AI path
UseAIPath == api_choice = GoogleAI /\ TruthyKey(API_KEY)

\* ------------------------------------------------------------- actions
Init ==
    /\ API_KEY \in EnvKeys
    /\ api_choice \in {GoogleAI, SimpleGen}
    /\ api_key \in IF api_choice = GoogleAI THEN {API_KEY, "typed-key"} ELSE {None}
    /\ uploaded_file \in UploadedFiles
    /\ pc = "start"
    /\ text = NoneText
    /\ markdown_content = NoneStr
    /\ html_content = NoneStr
    /\ text_area = NoneStr
    /\ md_download = NoneStr
    /\ html_download = NoneStr
    /\ notices = {}
    /\ calls = <<>>
    /\ configured = "not_called"
    /\ outcome = NoOutcome
    /\ prompt_text = NoneText
    /\ fallback_arg = NoneText

\* line 230
Configure ==
    /\ pc = "start"
    /\ IF api_choice = GoogleAI
       THEN \E raises \in BOOLEAN :
                LET r == configure_genai(raises)
                IN  /\ configured' = r.state
                    /\ notices' = notices \cup r.notices
                    /\ calls' = calls \o r.calls
                    /\ pc' = IF r.ret THEN "upload" ELSE "returned"
       ELSE /\ pc' = "upload"
            /\ UNCHANGED <<configured, notices, calls>>
    /\ UNCHANGED <<inputs, outputs, text, markdown_content, html_content, outcome,
                   prompt_text, fallback_arg>>

\* lines 234-236
FileUpload ==
    /\ pc = "upload"
    /\ pc' = IF uploaded_file.present THEN "extract" ELSE "returned"
    /\ UNCHANGED <<inputs, outputs, text, markdown_content, html_content, notices,
                   calls, configured, outcome, prompt_text, fallback_arg>>

\* lines 238-240
Extract ==
    /\ pc = "extract"
    /\ LET r == extract_text_from_pdf(uploaded_file)
       IN  /\ text' = r.ret
           /\ calls' = Append(calls, "extract_text_from_pdf")
           /\ IF TruthyText(r.ret)
              THEN /\ notices' = notices \cup r.notices \cup {"Successfully extracted"}
                   /\ pc' = "select"
              ELSE /\ notices' = notices \cup r.notices
                   /\ pc' = "returned"
    /\ UNCHANGED <<inputs, outputs, markdown_content, html_content, configured,
                   outcome, prompt_text, fallback_arg>>

\* lines 243-244
CallAI ==
    /\ pc = "select"
    /\ UseAIPath
    /\ \E o \in Outcomes :
           LET r == create_mindmap_markdown(text, o)
           IN  /\ outcome' = o
               /\ markdown_content' = r.ret
               /\ prompt_text' = r.prompt
               /\ notices' = notices \cup r.notices
               /\ calls' = calls \o r.calls
    /\ pc' = "ai_returned"
    /\ UNCHANGED <<inputs, outputs, text, html_content, configured, fallback_arg>>

\* lines 245-247
Fallback ==
    /\ pc = "ai_returned"
    /\ IF ~TruthyStr(markdown_content)
       THEN /\ notices' = notices \cup {"AI generation failed"}
            /\ markdown_content' = generate_simple_mindmap(text)
            /\ fallback_arg' = text
            /\ calls' = Append(calls, "generate_simple_mindmap")
       ELSE UNCHANGED <<notices, markdown_content, fallback_arg, calls>>
    /\ pc' = "generated"
    /\ UNCHANGED <<inputs, outputs, text, html_content, configured, outcome,
                   prompt_text>>

\* lines 248-249
SimpleGenerate ==
    /\ pc = "select"
    /\ ~UseAIPath
    /\ markdown_content' = generate_simple_mindmap(text)
    /\ fallback_arg' = text
    /\ calls' = Append(calls, "generate_simple_mindmap")
    /\ pc' = "generated"
    /\ UNCHANGED <<inputs, outputs, text, html_content, notices, configured, outcome,
                   prompt_text>>

\* Render keeping the escaped text as the outline
Render_PersistEscaped ==
    /\ pc = "generated"
    /\ IF TruthyStr(markdown_content)
       THEN /\ html_content' = create_markmap_html(markdown_content)
            /\ markdown_content' = EscapeMarkdown(markdown_content)
            /\ calls' = Append(calls, "create_markmap_html")
            /\ pc' = "rendered"
       ELSE /\ pc' = "returned"
            /\ UNCHANGED <<html_content, markdown_content, calls>>
    /\ UNCHANGED <<inputs, outputs, text, notices, configured,
                   outcome, prompt_text, fallback_arg>>

\* lines 251-256
Render ==
    /\ pc = "generated"
    /\ IF TruthyStr(markdown_content)
       THEN /\ html_content' = create_markmap_html(markdown_content)
            /\ calls' = Append(calls, "create_markmap_html")
            /\ pc' = "rendered"
       ELSE /\ pc' = "returned"
            /\ UNCHANGED <<html_content, calls>>
    /\ UNCHANGED <<inputs, outputs, text, markdown_content, notices, configured,
                   outcome, prompt_text, fallback_arg>>

\* lines 258-261
Offer ==
    /\ pc = "rendered"
    /\ text_area' = markdown_content
    /\ md_download' = markdown_content
    /\ html_download' = html_content
    /\ pc' = "done"
    /\ UNCHANGED <<inputs, text, markdown_content, html_content, notices, calls,
                   configured, outcome, prompt_text, fallback_arg>>

\* the user touches a sidebar widget (the provider radio, the key field):
\* Streamlit runs the script again from the top; the environment and the
\* file held by the uploader stay
Rerun ==
    /\ pc \in {"done", "returned"}
    /\ UNCHANGED <<API_KEY, uploaded_file>>
    /\ api_choice' \in {GoogleAI, SimpleGen}
    /\ api_key' \in IF api_choice' = GoogleAI THEN {API_KEY, "typed-key"} ELSE {None}
    /\ pc' = "start"
    /\ text' = NoneText
    /\ markdown_content' = NoneStr
    /\ html_content' = NoneStr
    /\ text_area' = NoneStr
    /\ md_download' = NoneStr
    /\ html_download' = NoneStr
    /\ notices' = {}
    /\ calls' = <<>>
    /\ configured' = "not_called"
    /\ outcome' = NoOutcome
    /\ prompt_text' = NoneText
    /\ fallback_arg' = NoneText

Next ==
    \/ Configure
    \/ FileUpload
    \/ Extract
    \/ CallAI
    \/ Fallback
    \/ SimpleGenerate
    \/ Render
    \/ Offer
    \/ Rerun

Spec == Init /\ [][Next]_vars

TypeOK ==
    /\ pc \in {"start", "upload", "extract", "select", "ai_returned", "generated",
               "rendered", "done", "returned"}
    /\ API_KEY \in EnvKeys
    /\ api_choice \in {GoogleAI, SimpleGen}
    /\ uploaded_file \in UploadedFiles

\* ------------------------------------------------------- observations
\* how often a function was invoked in this run
Count(name) == Cardinality({i \in 1..Len(calls) : calls[i] = name})
Called(name) == Count(name) > 0
\* main has returned
Ended == pc \in {"done", "returned"}
\* extract_text_from_pdf has returned text to main
Extracted == Called("extract_text_from_pdf") /\ TruthyText(text)
\* every character of an outline str is whitespace (the empty str included)
AllSpace(s) == \A i \in 1..Len(s) : IsSpace(s[i])

\* C1: once extract_text_from_pdf has returned text, the run cannot end
\* without an outline: whatever the mode, the key and the outcome of the AI
\* call, main ends at the download buttons with a non-empty outline that was
\* passed to create_markmap_html and is offered for download.
C1_OutlineAlwaysDelivered ==
    (Extracted /\ Ended) =>
        /\ pc = "done"
        /\ markdown_content # NoneStr
        /\ Len(markdown_content) > 0
        /\ Count("create_markmap_html") = 1
        /\ html_content = create_markmap_html(markdown_content)
        /\ md_download = markdown_content
        /\ html_download = html_content

C1_Witness ==
    /\ pc = "done"
    /\ Extracted
    /\ outcome.kind = "call_error"
    /\ md_download = generate_simple_mindmap(text)

\* C2: with AI mode and a key, the AI result counts as failed exactly when
\* the call raised, the response had no text, or its text was empty or
\* whitespace only; after a failure the outline is the output of
\* generate_simple_mindmap, and generate_content is called at most once.
C2_FailureClassifiedAndAbsorbed ==
    LET failed == \/ outcome.kind \in {"model_error", "call_error"}
                  \/ outcome.text = NoneStr
                  \/ AllSpace(outcome.text)
    IN  /\ Count("generate_content") <= 1
        /\ Count("create_mindmap_markdown") <= 1
        /\ (pc = "ai_returned") => (failed <=> ~TruthyStr(markdown_content))
        /\ (pc \in {"generated", "rendered", "done"} /\ outcome.kind # "not_called") =>
               /\ failed <=> Called("generate_simple_mindmap")
               /\ failed => /\ markdown_content = generate_simple_mindmap(text)
                            /\ "AI generation failed" \in notices
               /\ ~failed => "AI generation failed" \notin notices

C2_Witness ==
    /\ pc = "done"
    /\ outcome.kind = "response"
    /\ outcome.text = <<" ">>
    /\ Count("generate_content") = 1
    /\ markdown_content = generate_simple_mindmap(text)

\* every character of a run-encoded str is whitespace (the empty str included)
RAllSpace(s) == \A i \in 1..Len(s) : IsSpace(s[i].c)
\* the uploaded document has some text that is not whitespace
HasText(f) ==
    /\ f.present
    /\ f.readable
    /\ \E i \in 1..Len(f.pages) : ~RAllSpace(f.pages[i])

\* C3: with AI mode selected and the credential absent or empty, a run over
\* an uploaded document whose text extracts ends with the outline of
\* generate_simple_mindmap, and makes no AI call.
C3_MissingKeyUsesFallback ==
    (Ended /\ api_choice = GoogleAI /\ ~TruthyKey(API_KEY) /\ HasText(uploaded_file)) =>
        /\ pc = "done"
        /\ Called("generate_simple_mindmap")
        /\ md_download = generate_simple_mindmap(text)
        /\ ~Called("generate_content")

\* C4: in the "Simple Generator" mode no run configures or calls the AI
\* path, with or without a key in the environment, and the outline comes
\* from generate_simple_mindmap only.
C4_SimpleModeNeverTouchesAI ==
    (api_choice = SimpleGen) =>
        /\ ~Called("configure_genai")
        /\ ~Called("genai.configure")
        /\ ~Called("create_mindmap_markdown")
        /\ ~Called("generate_content")
        /\ configured = "not_called"
        /\ outcome = NoOutcome
        /\ prompt_text = NoneText
        /\ (pc \in {"generated", "rendered", "done"}) =>
               /\ Count("generate_simple_mindmap") = 1
               /\ markdown_content = generate_simple_mindmap(text)

C4_Witness ==
    /\ pc = "done"
    /\ api_choice = SimpleGen
    /\ TruthyKey(API_KEY)
    /\ md_download = generate_simple_mindmap(text)

\* C5: a document that cannot be read, or whose pages hold no character
\* other than whitespace, makes extraction fail, and the run then stops
\* before any generator: neither create_mindmap_markdown nor
\* generate_simple_mindmap is invoked, nothing is rendered or offered.
C5_ExtractionFailureHalts ==
    Called("extract_text_from_pdf") =>
        /\ ~HasText(uploaded_file) <=> (text = NoneText)
        /\ (text = NoneText) =>
               /\ pc = "returned"
               /\ ~Called("create_mindmap_markdown")
               /\ ~Called("generate_content")
               /\ ~Called("generate_simple_mindmap")
               /\ ~Called("create_markmap_html")
               /\ markdown_content = NoneStr
               /\ html_content = NoneStr
               /\ text_area = NoneStr
               /\ md_download = NoneStr
               /\ html_download = NoneStr
               /\ notices \cap {"Error reading PDF", "No text could be extracted"} # {}

C5_Witness ==
    /\ pc = "returned"
    /\ Called("extract_text_from_pdf")
    /\ uploaded_file.readable
    /\ Len(uploaded_file.pages) = 2
    /\ \A i \in 1..2 : uploaded_file.pages[i] # <<>>
    /\ text = NoneText

RECURSIVE RIsPrefix(_, _)
\* the run-encoded str p is a prefix of t
RIsPrefix(p, t) ==
    \/ p = <<>>
    \/ /\ t # <<>>
       /\ Head(p).c = Head(t).c
       /\ \/ Len(p) = 1 /\ Head(p).n <= Head(t).n
          \/ Head(p).n = Head(t).n /\ RIsPrefix(Tail(p), Tail(t))

RECURSIVE RDropEnd(_, _)
\* s without its last k characters
RDropEnd(s, k) ==
    IF k <= 0 \/ s = <<>> THEN s
    ELSE LET last == s[Len(s)]
             front == SubSeq(s, 1, Len(s) - 1)
         IN  IF last.n > k THEN Append(front, Run(last.c, last.n - k))
             ELSE RDropEnd(front, k - last.n)

\* C6: whenever a prompt is built, a text longer than 30000 characters goes
\* into it as its first 30000 characters followed by "...", with the
\* truncation warning shown; a text of at most 30000 characters goes in
\* unchanged, without the warning.  The cut stays inside
\* create_mindmap_markdown: a fallback after it gets the whole text.
C6_PromptTruncation ==
    /\ Called("generate_content") => prompt_text # NoneText
    /\ (prompt_text # NoneText) =>
           IF RLen(text) > max_chars
           THEN /\ RLen(prompt_text) = max_chars + 3
                /\ \A i \in 1..3 : RCharAt(prompt_text, max_chars + i) = "."
                /\ RLen(RDropEnd(prompt_text, 3)) = max_chars
                /\ RIsPrefix(RDropEnd(prompt_text, 3), text)
                /\ "Text was truncated" \in notices
           ELSE /\ prompt_text = text
                /\ "Text was truncated" \notin notices
    /\ Called("generate_simple_mindmap") =>
           /\ fallback_arg = text
           /\ fallback_arg = RStrip(ConcatPages(uploaded_file.pages))

C6_Witness ==
    /\ pc = "done"
    /\ RLen(text) = max_chars + 1
    /\ text[Len(text)].c = "b"
    /\ outcome.kind = "call_error"
    /\ RLen(prompt_text) = max_chars + 3
    /\ RLen(fallback_arg) = max_chars + 1

\* number of occurrences of the character c in the str s
CountChar(s, c) == Cardinality({i \in 1..Len(s) : s[i] = c})
\* number of places of s where "${" starts
CountDollarBrace(s) ==
    Cardinality({i \in 1..Len(s) - 1 : s[i] = "$" /\ s[i + 1] = "{"})

\* the number of backslashes in a row right before position i of s
BackslashesBefore(s, i) ==
    LET others == {j \in 1..(i - 1) : s[j] # Backslash}
    IN  IF others = {} THEN i - 1
        ELSE i - 1 - (CHOOSE j \in others : \A x \in others : x <= j)

\* How the browser reads the template literal s (the opening backtick is
\* s[1]): a backslash takes the next character with it, so a character is
\* bare when an even number of backslashes stands right before it; a bare
\* backtick closes the literal, a bare "${" opens a substitution.
\* The position of the closing backtick; 0 when a substitution opens first,
\* -1 when the literal is never closed.
LiteralEnd(s) ==
    LET bare(i) == BackslashesBefore(s, i) % 2 = 0
        closers == {i \in 2..Len(s) : s[i] = Backtick /\ bare(i)}
        openers == {i \in 2..(Len(s) - 1) : s[i] = "$" /\ s[i + 1] = "{" /\ bare(i)}
        events == closers \cup openers
        first == CHOOSE i \in events : \A x \in events : i <= x
    IN  IF events = {} THEN -1
        ELSE IF first \in closers THEN first
        ELSE 0

\* C7: in the page every backtick and every "${" of the outline carries one
\* added backslash and nothing else is changed, so the template literal
\* holding the outline is closed by its own last backtick only and opens no
\* substitution, also when the outline has a backslash right before a
\* backtick or before "${".
C7_EscapedLiteralIsIntact ==
    (pc \in {"rendered", "done"}) =>
        LET esc == SubSeq(html_content, 2, Len(html_content) - 1)
        IN  /\ Len(esc) = Len(markdown_content)
                          + CountChar(markdown_content, Backtick)
                          + CountDollarBrace(markdown_content)
            /\ \A i \in 1..Len(esc) :
                   (esc[i] = Backtick) => (i > 1 /\ esc[i - 1] = Backslash)
            /\ \A i \in 1..Len(esc) - 1 :
                   (esc[i] = "$" /\ esc[i + 1] = "{") => (i > 1 /\ esc[i - 1] = Backslash)
            /\ LiteralEnd(html_content) \notin 2..(Len(html_content) - 1)
            /\ LiteralEnd(html_content) # 0

\* s.split("\n") for an outline str
SplitLines(s) ==
    LET nl == {i \in 1..Len(s) : s[i] = "\n"}
        \* the position of the j-th line break; 0 and Len(s) + 1 close the ends
        brk(j) == IF j = 0 THEN 0
                  ELSE IF j > Cardinality(nl) THEN Len(s) + 1
                  ELSE CHOOSE i \in nl : Cardinality({x \in nl : x < i}) = j - 1
    IN  [j \in 1..(Cardinality(nl) + 1) |-> SubSeq(s, brk(j - 1) + 1, brk(j) - 1)]

RECURSIVE RSplitLines(_, _)
\* s.split("\n") for a run-encoded str
RSplitLines(s, cur) ==
    IF s = <<>> THEN <<cur>>
    ELSE IF Head(s).c = "\n"
         THEN <<cur>> \o [i \in 1..(Head(s).n - 1) |-> <<>>] \o RSplitLines(Tail(s), <<>>)
    ELSE RSplitLines(Tail(s), Append(cur, Head(s)))

\* the str line starts with the str p
StartsWith(line, p) == Len(line) >= Len(p) /\ SubSeq(line, 1, Len(p)) = p

\* the k of the claim: the lines among the first 10 of t whose trimmed
\* length exceeds 20, at most 5 of them
QualifyingLines(t) ==
    LET ls == RSplitLines(t, <<>>)
        first == 1..(IF Len(ls) < 10 THEN Len(ls) ELSE 10)
        n == Cardinality({i \in first : RLen(RStrip(ls[i])) > 20})
    IN  IF n > 5 THEN 5 ELSE n

\* C8: the fallback outline is one root heading followed by exactly k
\* second-level headings with one bullet each, k being the number of lines
\* longer than 20 characters (trimmed) among the first 10 of the text,
\* at most 5; with k = 0 it is the root heading alone.
C8_FallbackFollowsTheText ==
    (pc = "generated" /\ Called("generate_simple_mindmap")) =>
        LET k == QualifyingLines(fallback_arg)
            ls == SplitLines(markdown_content)
        IN  /\ Len(ls) = 1 + 2 * k
            /\ StartsWith(ls[1], <<"#", " ">>)
            /\ \A j \in 1..k : /\ StartsWith(ls[2 * j], <<"#", "#", " ">>)
                               /\ StartsWith(ls[2 * j + 1], <<"-", " ">>)

\* the outline str m is the str r without its leading and trailing whitespace
IsTrimOf(m, r) ==
    \E i \in 1..Len(r) : \E j \in i..Len(r) :
        /\ m = SubSeq(r, i, j)
        /\ ~IsSpace(r[i])
        /\ ~IsSpace(r[j])
        /\ AllSpace(SubSeq(r, 1, i - 1))
        /\ AllSpace(SubSeq(r, j + 1, Len(r)))

\* the outline is what the generator of this run produced
AsProduced(m) ==
    IF Called("generate_simple_mindmap")
    THEN m = generate_simple_mindmap(text)
    ELSE outcome.kind = "response" /\ outcome.text # NoneStr /\ IsTrimOf(m, outcome.text)

\* C9: the escaping is applied once per run and only to the copy put into
\* the page; the outline itself stays as the generator produced it, and it
\* is this unescaped outline that the Markdown view shows and the Markdown
\* download holds, also when it contains backticks or "${".
C9_OutlineStaysUnescaped ==
    /\ Count("create_markmap_html") <= 1
    /\ (pc \in {"generated", "rendered", "done"}) => AsProduced(markdown_content)
    /\ (pc \in {"rendered", "done"}) =>
           /\ Count("create_markmap_html") = 1
           /\ html_content = <<Backtick>> \o EscapeMarkdown(markdown_content) \o <<Backtick>>
    /\ (pc = "done") =>
           /\ text_area = markdown_content
           /\ md_download = markdown_content
           /\ html_download = html_content

C9_Witness ==
    /\ pc = "done"
    /\ outcome.text = <<Backtick, "$", "{">>
    /\ md_download = <<Backtick, "$", "{">>
    /\ text_area = md_download
    /\ html_download = <<Backtick, Backslash, Backtick, Backslash, "$", "{", Backtick>>

\* the functions a finished run must have invoked, in order, told from the
\* provider mode, the key of the environment, the file and what the
\* services did; the typed key is no argument
RouteFor(choice, envkey, cfg, f, o) ==
    LET ai == choice = GoogleAI
        conf == IF ~ai THEN <<>>
                ELSE IF ~TruthyKey(envkey) THEN <<"configure_genai">>
                ELSE <<"configure_genai", "genai.configure">>
        stopped == ai /\ (~TruthyKey(envkey) \/ cfg = "error")
        read == IF stopped \/ ~f.present THEN <<>> ELSE <<"extract_text_from_pdf">>
        aifailed == \/ o.kind \in {"model_error", "call_error"}
                    \/ o.text = NoneStr
                    \/ AllSpace(o.text)
        gen == IF read = <<>> \/ ~HasText(f) THEN <<>>
               ELSE IF ~ai THEN <<"generate_simple_mindmap", "create_markmap_html">>
               ELSE <<"create_mindmap_markdown">>
                    \o (IF o.kind = "model_error" THEN <<>> ELSE <<"generate_content">>)
                    \o (IF aifailed THEN <<"generate_simple_mindmap">> ELSE <<>>)
                    \o <<"create_markmap_html">>
    IN  conf \o read \o gen

\* C10: the route of a run and its outline are told by the provider mode and
\* the key of the environment (with the file and what the services did);
\* the key typed into the sidebar field changes neither: every finished run
\* has invoked exactly the functions RouteFor gives without looking at the
\* typed key, configure_genai has judged the key of the environment, and
\* the outline is the one the route produces.
C10_TypedKeyIsIgnored ==
    /\ (configured = "missing") <=> (Called("configure_genai") /\ ~TruthyKey(API_KEY))
    /\ Ended =>
           /\ calls = RouteFor(api_choice, API_KEY, configured, uploaded_file, outcome)
           /\ (pc = "done") <=> Called("create_markmap_html")
           /\ (pc = "done") => (AsProduced(md_download) /\ md_download = markdown_content)
           /\ (pc = "returned") => md_download = NoneStr

C10_Witness ==
    /\ pc = "returned"
    /\ api_choice = GoogleAI
    /\ API_KEY = ""
    /\ api_key = "typed-key"
    /\ HasText(uploaded_file)
    /\ calls = <<"configure_genai">>

====
